---- MODULE Spec2Model ----
(***************************************************************************)
(* The inventory API of src/tims/backend.py: a static credential table,    *)
(* two in-memory collections (products, suppliers) with their id counters, *)
(* and one handler per route.                                              *)
(*                                                                         *)
(* Spec      one request at a time: a handler runs from the idle server    *)
(*           to its response, then the request context is dropped.         *)
(* SpecConc  two worker threads run add_product statement by statement.    *)
(***************************************************************************)
EXTENDS Integers, Sequences, FiniteSets, TLC

VARIABLES
    users,                \* the credential table (backend.py:10)
    products,             \* ordered dict: sequence of [key, val] (backend.py:18)
    suppliers,            \* ordered dict: sequence of [key, val] (backend.py:24)
    product_id_counter,   \* backend.py:30
    supplier_id_counter,  \* backend.py:31
    request,              \* the request being answered (flask.request)
    response,             \* the handler's return value
    assigned,             \* history: the product ids given out, in order
    nreq,                 \* how many requests were received
    threaded,             \* whether the server runs handlers concurrently
    th                    \* per worker thread: position and locals in add_product

vars == <<users, products, suppliers, product_id_counter, supplier_id_counter,
          request, response, assigned, nreq, threaded, th>>

stores == <<products, suppliers, product_id_counter, supplier_id_counter>>

-----------------------------------------------------------------------------
(* Bounds of the model. *)

\* requests received in one behaviour of Spec
MaxRequests == 4
\* creates begun by each worker thread in one behaviour of SpecConc
MaxCreates == 1

-----------------------------------------------------------------------------
(* JSON values as Python holds them.  A value carries its Python type:      *)
(* int, str (a sequence of characters), bool or NoneType.                   *)

IntV(i) == [t |-> "int", n |-> i, s |-> <<>>]
StrV(chars) == [t |-> "str", n |-> 0, s |-> chars]
BoolV(b) == [t |-> "bool", n |-> IF b THEN 1 ELSE 0, s |-> <<>>]
NoneV == [t |-> "none", n |-> 0, s |-> <<>>]

\* bool is a subclass of int: isinstance(True, int) is True
isinstance_int(v) == v.t \in {"int", "bool"}

\* A key of a JSON object that may be absent; a credential is a string.
Absent == [some |-> FALSE, v |-> ""]
Given(x) == [some |-> TRUE, v |-> x]
NoDict == [k \in {} |-> NoneV]
AbsentDict == [some |-> FALSE, v |-> NoDict]
AbsentVal == [some |-> FALSE, v |-> NoneV]

\* dict.get(key, default)
get(opt, default) == IF opt.some THEN opt.v ELSE default

-----------------------------------------------------------------------------
(* Characters in code-point order, and the str methods the handlers use.    *)

Alphabet ==
    <<" ", "-", ".", "0", "1", "2", "3", "4", "5", "6", "7", "8", "9", "@",
      "A", "B", "C", "D", "E", "F", "G", "H", "I", "J", "K", "L", "M",
      "N", "O", "P", "Q", "R", "S", "T", "U", "V", "W", "X", "Y", "Z",
      "a", "b", "c", "d", "e", "f", "g", "h", "i", "j", "k", "l", "m",
      "n", "o", "p", "q", "r", "s", "t", "u", "v", "w", "x", "y", "z">>

ord(c) == CHOOSE i \in DOMAIN Alphabet : Alphabet[i] = c

\* str.lower(): "A".."Z" map to "a".."z", everything else is kept
lower_char(c) ==
    IF ord("A") <= ord(c) /\ ord(c) <= ord("Z")
    THEN Alphabet[ord(c) - ord("A") + ord("a")]
    ELSE c

lower(chars) == [i \in DOMAIN chars |-> lower_char(chars[i])]

\* needle in haystack, for two str
contains(haystack, needle) ==
    \E i \in 0..(Len(haystack) - Len(needle)) :
        SubSeq(haystack, i + 1, i + Len(needle)) = needle

\* a < b for two str: lexicographic by code point
str_less(a, b) ==
    \E i \in 1..Len(b) :
        /\ \A j \in 1..(i - 1) : j <= Len(a) /\ a[j] = b[j]
        /\ \/ i = Len(a) + 1
           \/ i <= Len(a) /\ ord(a[i]) < ord(b[i])

\* Whether Python can order two values: numbers with numbers, str with str.
comparable(a, b) ==
    \/ isinstance_int(a) /\ isinstance_int(b)
    \/ a.t = "str" /\ b.t = "str"

\* a < b where comparable
less(a, b) == IF a.t = "str" THEN str_less(a.s, b.s) ELSE a.n < b.n

-----------------------------------------------------------------------------
(* A dict that keeps insertion order: a sequence of [key, val] entries.     *)

keys(d) == {d[i].key : i \in DOMAIN d}

values(d) == [i \in DOMAIN d |-> d[i].val]

lookup(d, k) == d[CHOOSE i \in DOMAIN d : d[i].key = k].val

\* d[k] = v: an existing key keeps its place, a new key goes last
setitem(d, k, v) ==
    IF k \in keys(d)
    THEN [i \in DOMAIN d |-> IF d[i].key = k THEN [key |-> k, val |-> v] ELSE d[i]]
    ELSE Append(d, [key |-> k, val |-> v])

\* a delete that drops the last entry (d.popitem()) instead of d[k]
delitem_popitem(d, k) == SubSeq(d, 1, Len(d) - 1)

\* del d[k]
delitem(d, k) == SelectSeq(d, LAMBDA e : e.key # k)

\* an update that replaces the record by what was sent
update_replaces(rec, other) == other

\* record.update(other): every key of other is set, the rest are kept
update(rec, other) ==
    [k \in DOMAIN rec \cup DOMAIN other |->
        IF k \in DOMAIN other THEN other[k] ELSE rec[k]]

-----------------------------------------------------------------------------
(* The data the module starts with (backend.py:10-31).                      *)

FiberOpticCable ==
    <<"F", "i", "b", "e", "r", " ", "O", "p", "t", "i", "c", " ", "C", "a", "b", "l", "e">>
Cables == <<"C", "a", "b", "l", "e", "s">>
RouterX500 == <<"R", "o", "u", "t", "e", "r", " ", "X", "-", "5", "0", "0">>
Networking == <<"N", "e", "t", "w", "o", "r", "k", "i", "n", "g">>
ModemPro100 == <<"M", "o", "d", "e", "m", " ", "P", "r", "o", "-", "1", "0", "0">>
SatelliteDish == <<"S", "a", "t", "e", "l", "l", "i", "t", "e", " ", "D", "i", "s", "h">>
Antennas == <<"A", "n", "t", "e", "n", "n", "a", "s">>
GlobalTelecomSolutions ==
    <<"G", "l", "o", "b", "a", "l", " ", "T", "e", "l", "e", "c", "o", "m", " ",
      "S", "o", "l", "u", "t", "i", "o", "n", "s">>
ContactGlobaltele ==
    <<"c", "o", "n", "t", "a", "c", "t", "@", "g", "l", "o", "b", "a", "l", "t", "e",
      "l", "e", ".", "c", "o", "m">>
FiberLinkInc == <<"F", "i", "b", "e", "r", "L", "i", "n", "k", " ", "I", "n", "c", ".">>
SalesFiberlink ==
    <<"s", "a", "l", "e", "s", "@", "f", "i", "b", "e", "r", "l", "i", "n", "k", ".",
      "n", "e", "t">>

Product(id, name, category, stock_level, reorder_point) ==
    [id |-> IntV(id), name |-> StrV(name), category |-> StrV(category),
     stock_level |-> IntV(stock_level), reorder_point |-> IntV(reorder_point)]

InitialUsers ==
    [admin |-> [password |-> "adminpassword", role |-> "Admin"],
     manager |-> [password |-> "managerpassword", role |-> "Manager"],
     staff |-> [password |-> "staffpassword", role |-> "Staff"]]

InitialProducts ==
    << [key |-> 1, val |-> Product(1, FiberOpticCable, Cables, 500, 100)],
       [key |-> 2, val |-> Product(2, RouterX500, Networking, 50, 20)],
       [key |-> 3, val |-> Product(3, ModemPro100, Networking, 75, 15)],
       [key |-> 4, val |-> Product(4, SatelliteDish, Antennas, 10, 5)] >>

InitialSuppliers ==
    << [key |-> 1, val |-> [id |-> IntV(1), name |-> StrV(GlobalTelecomSolutions),
                            contact_info |-> StrV(ContactGlobaltele)]],
       [key |-> 2, val |-> [id |-> IntV(2), name |-> StrV(FiberLinkInc),
                            contact_info |-> StrV(SalesFiberlink)]] >>

InitialProductIdCounter == 5
InitialSupplierIdCounter == 3

-----------------------------------------------------------------------------
(* Requests and responses.                                                  *)

NoRequest ==
    [route |-> "", product_id |-> 0,
     username |-> Absent, password |-> Absent,
     product |-> AbsentDict, change |-> AbsentVal, supplier |-> AbsentDict,
     name |-> <<>>, category |-> <<>>, stock_status |-> <<>>]

NoResponse == [status |-> 0, body |-> NoDict]

Error(message) == [error |-> message]

Workers == {1, 2}

NoThread == [pc |-> "idle", left |-> MaxCreates, json |-> NoRequest,
             new_product |-> NoDict, tmp |-> 0, status |-> 0]

Init ==
    /\ users = InitialUsers
    /\ products = InitialProducts
    /\ suppliers = InitialSuppliers
    /\ product_id_counter = InitialProductIdCounter
    /\ supplier_id_counter = InitialSupplierIdCounter
    /\ request = NoRequest
    /\ response = NoResponse
    /\ assigned = <<1, 2, 3, 4>>
    /\ nreq = 0
    /\ threaded = FALSE
    /\ th = [w \in Workers |-> NoThread]

-----------------------------------------------------------------------------
(* The authenticator (backend.py:35-44).                                    *)

NoRole == "None"

\* an authenticator that looks the user up and never compares the password
get_user_role_no_password(username, password) ==
    IF username.some /\ username.v \in DOMAIN users
    THEN users[username.v].role
    ELSE NoRole

get_user_role(username, password) ==
    IF /\ username.some
       /\ username.v \in DOMAIN users
       /\ password = Given(users[username.v].password)
    THEN users[username.v].role
    ELSE NoRole

-----------------------------------------------------------------------------
(* The inputs the model sends.                                              *)

Cred(username, password) == [username |-> username, password |-> password]

\* credentials sent with the mutating requests: one per role, a wrong
\* password, and none at all
AuthInputs ==
    { Cred(Given("admin"), Given("adminpassword")),
      Cred(Given("manager"), Given("managerpassword")),
      Cred(Given("staff"), Given("staffpassword")),
      Cred(Given("admin"), Given("managerpassword")),
      Cred(Absent, Absent) }

\* credentials sent to /login: also wrong case, unknown user, one key missing
LoginInputs ==
    AuthInputs \cup
    { Cred(Given("Admin"), Given("adminpassword")),
      Cred(Given("admin"), Given("AdminPassword")),
      Cred(Given("nobody"), Given("adminpassword")),
      Cred(Given("staff"), Absent),
      Cred(Absent, Given("staffpassword")) }

\* path ids: 0 is never a key, 2 is one from the start, 5 is the first created
PathIds == {0, 2, 5}

PatchCable == <<"P", "a", "t", "c", "h", " ", "C", "a", "b", "l", "e">>
Acme == <<"A", "c", "m", "e">>

\* "product" of POST /products: absent, empty, one key short, complete,
\* complete with a string stock_level and an id of the caller's
AddPayloads ==
    { AbsentDict,
      Given(NoDict),
      Given([name |-> StrV(PatchCable), category |-> StrV(Cables),
             stock_level |-> IntV(0)]),
      Given([name |-> StrV(PatchCable), category |-> StrV(Cables),
             stock_level |-> IntV(0), reorder_point |-> IntV(5)]),
      Given([id |-> IntV(1), name |-> StrV(Acme), category |-> StrV(Antennas),
             stock_level |-> StrV(<<"5", "0">>), reorder_point |-> IntV(5)]) }

\* "product" of PUT /products/<id>: absent, one field (a stock_level equal to
\* the reorder_point of product 2), the id and a new key, fields of other types
UpdatePayloads ==
    { AbsentDict,
      Given([stock_level |-> IntV(20)]),
      Given([id |-> IntV(1), note |-> StrV(Acme)]),
      Given([name |-> NoneV, stock_level |-> StrV(<<"5", "0">>)]) }

\* "change" of PUT /products/<id>/stock
Changes ==
    { AbsentVal, Given(IntV(0)), Given(IntV(-1000)), Given(IntV(1)),
      Given(BoolV(TRUE)), Given(StrV(<<"7">>)) }

\* "supplier" of POST /suppliers
SupplierPayloads ==
    { AbsentDict,
      Given(NoDict),
      Given([contact_info |-> StrV(SalesFiberlink)]),
      Given([name |-> StrV(Acme)]),
      Given([name |-> StrV(Acme), contact_info |-> StrV(ContactGlobaltele)]) }

\* query parameters of GET /products; the empty string is "not supplied"
NameQueries == { <<>>, <<"C", "A", "B", "L", "E">> }
CategoryQueries == { <<>>, <<"c", "a", "b", "l", "e", "s">> }
StockStatusQueries ==
    { <<>>, <<"L", "O", "W">>,
      <<"o", "u", "t", " ", "o", "f", " ", "s", "t", "o", "c", "k">>,
      <<"h", "i", "g", "h">> }

-----------------------------------------------------------------------------
(* The request cycle: the server is idle, a handler answers one request,    *)
(* the request context is dropped.                                          *)

Idle == request.route = "" /\ nreq < MaxRequests /\ ~threaded

\* what a handler leaves behind: the request it read and what it returned
Returns(req, status, body) ==
    /\ request' = req
    /\ response' = [status |-> status, body |-> body]
    /\ nreq' = nreq + 1
    /\ UNCHANGED <<users, threaded, th>>

JsonRequest(route, id, cred) ==
    [NoRequest EXCEPT !.route = route, !.product_id = id,
                      !.username = cred.username, !.password = cred.password]

\* POST /login (backend.py:48-62)
login ==
    /\ Idle
    /\ \E cred \in LoginInputs :
        LET req == JsonRequest("POST /login", 0, cred)
            role == get_user_role(req.username, req.password)
        IN  /\ IF role # NoRole
               THEN Returns(req, 200,
                        [message |-> "Login successful",
                         username |-> req.username.v, role |-> role])
               ELSE Returns(req, 401, Error("Invalid credentials"))
            /\ UNCHANGED <<stores, assigned>>

-----------------------------------------------------------------------------
(* GET /products (backend.py:64-87).  Each filter is one list               *)
(* comprehension over what the filters before it kept; it raises when its   *)
(* condition cannot be evaluated on an element (str.lower of a value that   *)
(* is no str, an order between a str and a number).                         *)

Kept(list) == [raised |-> FALSE, list |-> list]
Raised == [raised |-> TRUE, list |-> <<>>]

\* backend.py:75-76
filter_name(r, name_query) ==
    IF r.raised \/ name_query = <<>> THEN r
    ELSE IF \E i \in DOMAIN r.list : r.list[i].name.t # "str" THEN Raised
    ELSE Kept(SelectSeq(r.list, LAMBDA p : contains(lower(p.name.s), name_query)))

\* backend.py:78-79
filter_category(r, category_query) ==
    IF r.raised \/ category_query = <<>> THEN r
    ELSE IF \E i \in DOMAIN r.list : r.list[i].category.t # "str" THEN Raised
    ELSE Kept(SelectSeq(r.list,
                  LAMBDA p : contains(lower(p.category.s), category_query)))

\* backend.py:83
is_low(p) == less(p.stock_level, p.reorder_point)

\* backend.py:85
is_out_of_stock(p) == p.stock_level.n <= 0

\* backend.py:81-85
filter_stock_status(r, stock_status_query) ==
    IF r.raised \/ stock_status_query = <<>> THEN r
    ELSE IF stock_status_query = <<"l", "o", "w">>
    THEN IF \E i \in DOMAIN r.list :
                ~comparable(r.list[i].stock_level, r.list[i].reorder_point)
         THEN Raised
         ELSE Kept(SelectSeq(r.list, is_low))
    ELSE IF stock_status_query =
                <<"o", "u", "t", " ", "o", "f", " ", "s", "t", "o", "c", "k">>
    THEN IF \E i \in DOMAIN r.list : ~isinstance_int(r.list[i].stock_level)
         THEN Raised
         ELSE Kept(SelectSeq(r.list, is_out_of_stock))
    ELSE r

\* backend.py:69-85
filtered_products(name, category, stock_status) ==
    filter_stock_status(
        filter_category(
            filter_name(Kept(values(products)), lower(name)),
            lower(category)),
        lower(stock_status))

get_products ==
    /\ Idle
    /\ \E name \in NameQueries, category \in CategoryQueries,
          stock_status \in StockStatusQueries :
        LET req == [NoRequest EXCEPT !.route = "GET /products", !.name = name,
                        !.category = category, !.stock_status = stock_status]
            result == filtered_products(req.name, req.category, req.stock_status)
        IN  /\ IF result.raised
               THEN Returns(req, 500, Error("Internal Server Error"))
               ELSE Returns(req, 200, result.list)
            /\ UNCHANGED <<stores, assigned>>

-----------------------------------------------------------------------------
(* The mutating handlers.                                                   *)

ProductKeys == {"name", "category", "stock_level", "reorder_point"}

\* a counter that is taken from the size of the collection
next_product_id_from_size(counter) == Len(products) + 2

\* a counter that is never advanced
next_product_id_stuck(counter) == counter

\* backend.py:115: product_id_counter += 1
next_product_id(counter) == counter + 1

\* backend.py:208: supplier_id_counter += 1
next_supplier_id(counter) == counter + 1

\* the allow-list of each mutating handler
\* (backend.py:100, 127, 147, 164, 195)
add_product_roles == {"Admin", "Manager"}
update_product_roles == {"Admin", "Manager"}
delete_product_roles_with_manager == {"Admin", "Manager"}
delete_product_roles == {"Admin"}
update_stock_roles == {"Admin", "Manager", "Staff"}
add_supplier_roles == {"Admin"}

\* backend.py:107-113
new_product_of(id, product_data) ==
    [id |-> IntV(id), name |-> product_data.name,
     category |-> product_data.category,
     stock_level |-> product_data.stock_level,
     reorder_point |-> product_data.reorder_point]

\* POST /products (backend.py:89-117)
add_product ==
    /\ Idle
    /\ \E cred \in AuthInputs, payload \in AddPayloads :
        LET req == [JsonRequest("POST /products", 0, cred) EXCEPT
                        !.product = payload]
            role == get_user_role(req.username, req.password)
            product_data == get(req.product, NoDict)
            new_product == new_product_of(product_id_counter, product_data)
        IN  IF role \notin add_product_roles
            THEN /\ Returns(req, 403, Error("Unauthorized access"))
                 /\ UNCHANGED <<stores, assigned>>
            ELSE IF DOMAIN product_data = {}
                    \/ ~(ProductKeys \subseteq DOMAIN product_data)
            THEN /\ Returns(req, 400, Error("Invalid product data"))
                 /\ UNCHANGED <<stores, assigned>>
            ELSE /\ products' = setitem(products, product_id_counter, new_product)
                 /\ product_id_counter' = next_product_id(product_id_counter)
                 /\ assigned' = Append(assigned, product_id_counter)
                 /\ Returns(req, 201, new_product)
                 /\ UNCHANGED <<suppliers, supplier_id_counter>>

\* PUT /products/<id> (backend.py:119-137)
update_product ==
    /\ Idle
    /\ \E cred \in AuthInputs, id \in PathIds, payload \in UpdatePayloads :
        LET req == [JsonRequest("PUT /products/<id>", id, cred) EXCEPT
                        !.product = payload]
            role == get_user_role(req.username, req.password)
            update_data == get(req.product, NoDict)
            product == update(lookup(products, id), update_data)
        IN  IF role \notin update_product_roles
            THEN /\ Returns(req, 403, Error("Unauthorized access"))
                 /\ UNCHANGED <<stores, assigned>>
            ELSE IF id \notin keys(products)
            THEN /\ Returns(req, 404, Error("Product not found"))
                 /\ UNCHANGED <<stores, assigned>>
            ELSE /\ products' = setitem(products, id, product)
                 /\ Returns(req, 200, product)
                 /\ UNCHANGED <<suppliers, product_id_counter,
                                supplier_id_counter, assigned>>

\* DELETE /products/<id> (backend.py:139-154)
delete_product ==
    /\ Idle
    /\ \E cred \in AuthInputs, id \in PathIds :
        LET req == JsonRequest("DELETE /products/<id>", id, cred)
            role == get_user_role(req.username, req.password)
        IN  IF role \notin delete_product_roles
            THEN /\ Returns(req, 403, Error("Unauthorized access"))
                 /\ UNCHANGED <<stores, assigned>>
            ELSE IF id \notin keys(products)
            THEN /\ Returns(req, 404, Error("Product not found"))
                 /\ UNCHANGED <<stores, assigned>>
            ELSE /\ products' = delitem(products, id)
                 /\ Returns(req, 200, [message |-> "Product deleted"])
                 /\ UNCHANGED <<suppliers, product_id_counter,
                                supplier_id_counter, assigned>>

\* an adjustment that stops at zero
stock_after_floored(stock_level, change) ==
    IntV(IF stock_level.n + change.n < 0 THEN 0 ELSE stock_level.n + change.n)

\* backend.py:175: stock_level += change, between two numbers
stock_after(stock_level, change) == IntV(stock_level.n + change.n)

\* PUT /products/<id>/stock (backend.py:156-177)
update_stock ==
    /\ Idle
    /\ \E cred \in AuthInputs, id \in PathIds, ch \in Changes :
        LET req == [JsonRequest("PUT /products/<id>/stock", id, cred) EXCEPT
                        !.change = ch]
            role == get_user_role(req.username, req.password)
            change == get(req.change, IntV(0))
            product == lookup(products, id)
            adjusted == [product EXCEPT
                            !.stock_level = stock_after(product.stock_level, change)]
        IN  IF role \notin update_stock_roles
            THEN /\ Returns(req, 403, Error("Unauthorized access"))
                 /\ UNCHANGED <<stores, assigned>>
            ELSE IF id \notin keys(products)
            THEN /\ Returns(req, 404, Error("Product not found"))
                 /\ UNCHANGED <<stores, assigned>>
            ELSE IF ~isinstance_int(change) \/ change.n = 0
            THEN /\ Returns(req, 400, Error("Invalid stock change value"))
                 /\ UNCHANGED <<stores, assigned>>
            ELSE IF ~isinstance_int(product.stock_level)
            \* str + int and None + int raise TypeError before anything is stored
            THEN /\ Returns(req, 500, Error("Internal Server Error"))
                 /\ UNCHANGED <<stores, assigned>>
            ELSE /\ products' = setitem(products, id, adjusted)
                 /\ Returns(req, 200, adjusted)
                 /\ UNCHANGED <<suppliers, product_id_counter,
                                supplier_id_counter, assigned>>

\* GET /suppliers (backend.py:179-184)
get_suppliers ==
    /\ Idle
    /\ Returns([NoRequest EXCEPT !.route = "GET /suppliers"], 200, values(suppliers))
    /\ UNCHANGED <<stores, assigned>>

\* backend.py:202-206
new_supplier_of(id, supplier_data) ==
    [id |-> IntV(id), name |-> supplier_data.name,
     contact_info |-> IF "contact_info" \in DOMAIN supplier_data
                      THEN supplier_data.contact_info
                      ELSE StrV(<<>>)]

\* POST /suppliers (backend.py:186-210)
add_supplier ==
    /\ Idle
    /\ \E cred \in AuthInputs, payload \in SupplierPayloads :
        LET req == [JsonRequest("POST /suppliers", 0, cred) EXCEPT
                        !.supplier = payload]
            role == get_user_role(req.username, req.password)
            supplier_data == get(req.supplier, NoDict)
            new_supplier == new_supplier_of(supplier_id_counter, supplier_data)
        IN  IF role \notin add_supplier_roles
            THEN /\ Returns(req, 403, Error("Unauthorized access"))
                 /\ UNCHANGED <<stores, assigned>>
            ELSE IF DOMAIN supplier_data = {} \/ "name" \notin DOMAIN supplier_data
            THEN /\ Returns(req, 400, Error("Invalid supplier data"))
                 /\ UNCHANGED <<stores, assigned>>
            ELSE /\ suppliers' = setitem(suppliers, supplier_id_counter, new_supplier)
                 /\ supplier_id_counter' = next_supplier_id(supplier_id_counter)
                 /\ Returns(req, 201, new_supplier)
                 /\ UNCHANGED <<products, product_id_counter, assigned>>

\* the response is sent and the request context is dropped
teardown ==
    /\ request.route # ""
    /\ ~threaded
    /\ request' = NoRequest
    /\ response' = NoResponse
    /\ UNCHANGED <<users, stores, assigned, nreq, threaded, th>>

Next ==
    \/ login
    \/ get_products
    \/ add_product
    \/ update_product
    \/ delete_product
    \/ update_stock
    \/ get_suppliers
    \/ add_supplier
    \/ teardown

Spec == Init /\ [][Next]_vars

-----------------------------------------------------------------------------
(* add_product run by worker threads, one statement at a time               *)
(* (backend.py:97-117).  No lock guards products and product_id_counter:    *)
(* a thread switch can fall between any two statements, and between the     *)
(* read and the write of product_id_counter += 1.  With threaded = FALSE a  *)
(* worker takes a request only when no other worker is inside the handler.  *)

ConcCreds ==
    { Cred(Given("admin"), Given("adminpassword")),
      Cred(Given("manager"), Given("managerpassword")),
      Cred(Given("staff"), Given("staffpassword")) }

ConcPayloads ==
    { Given([name |-> StrV(PatchCable), category |-> StrV(Cables),
             stock_level |-> IntV(0), reorder_point |-> IntV(5)]),
      Given([name |-> StrV(Acme), category |-> StrV(Antennas),
             stock_level |-> IntV(3), reorder_point |-> IntV(5)]) }

InitConc ==
    /\ users = InitialUsers
    /\ products = InitialProducts
    /\ suppliers = InitialSuppliers
    /\ product_id_counter = InitialProductIdCounter
    /\ supplier_id_counter = InitialSupplierIdCounter
    /\ request = NoRequest
    /\ response = NoResponse
    /\ assigned = <<1, 2, 3, 4>>
    /\ nreq = 0
    /\ threaded \in BOOLEAN
    /\ th = [w \in Workers |-> NoThread]

Step(w, pc, fields) ==
    /\ th[w].pc = pc
    /\ th' = [th EXCEPT ![w] =
                [k \in DOMAIN th[w] |->
                    IF k \in DOMAIN fields THEN fields[k] ELSE th[w][k]]]
    /\ UNCHANGED <<users, suppliers, supplier_id_counter, request, response,
                   nreq, threaded>>

\* the request arrives: backend.py:97
t_receive(w) ==
    /\ th[w].left > 0
    /\ threaded \/ \A o \in Workers : th[o].pc = "idle"
    /\ \E cred \in ConcCreds, payload \in ConcPayloads :
        Step(w, "idle",
             [pc |-> "check", left |-> th[w].left - 1, status |-> 0,
              new_product |-> NoDict,
              json |-> [JsonRequest("POST /products", 0, cred) EXCEPT
                            !.product = payload]])
    /\ UNCHANGED <<products, product_id_counter, assigned>>

\* backend.py:98-105
t_check(w) ==
    LET role == get_user_role(th[w].json.username, th[w].json.password)
        product_data == get(th[w].json.product, NoDict)
    IN  /\ IF role \notin add_product_roles
           THEN Step(w, "check", [pc |-> "idle", status |-> 403])
           ELSE IF DOMAIN product_data = {}
                   \/ ~(ProductKeys \subseteq DOMAIN product_data)
           THEN Step(w, "check", [pc |-> "idle", status |-> 400])
           ELSE Step(w, "check", [pc |-> "build"])
        /\ UNCHANGED <<products, product_id_counter, assigned>>

\* backend.py:107-113: new_product = {'id': product_id_counter, ...}
t_build(w) ==
    /\ Step(w, "build",
            [pc |-> "store",
             new_product |-> new_product_of(product_id_counter,
                                            get(th[w].json.product, NoDict))])
    /\ UNCHANGED <<products, product_id_counter, assigned>>

\* backend.py:114: products[product_id_counter] = new_product
t_store(w) ==
    /\ Step(w, "store", [pc |-> "load"])
    /\ products' = setitem(products, product_id_counter, th[w].new_product)
    /\ UNCHANGED <<product_id_counter, assigned>>

\* backend.py:115, the read of product_id_counter += 1
t_load(w) ==
    /\ Step(w, "load", [pc |-> "inc", tmp |-> product_id_counter])
    /\ UNCHANGED <<products, product_id_counter, assigned>>

\* backend.py:115, the write of product_id_counter += 1
t_inc(w) ==
    /\ Step(w, "inc", [pc |-> "return"])
    /\ product_id_counter' = next_product_id(th[w].tmp)
    /\ UNCHANGED <<products, assigned>>

\* backend.py:117: return jsonify(new_product), 201
t_return(w) ==
    /\ Step(w, "return", [pc |-> "idle", status |-> 201])
    /\ assigned' = Append(assigned, th[w].new_product.id.n)
    /\ UNCHANGED <<products, product_id_counter>>

NextConc ==
    \E w \in Workers :
        \/ t_receive(w)
        \/ t_check(w)
        \/ t_build(w)
        \/ t_store(w)
        \/ t_load(w)
        \/ t_inc(w)
        \/ t_return(w)

SpecConc == InitConc /\ [][NextConc]_vars

-----------------------------------------------------------------------------
(* What the claims are stated with.                                         *)

\* a handler has just answered a request on this route
Handled(route) == request.route = "" /\ request'.route = route

\* the credentials of the request match an entry of the credential table
\* whose role is one of roles
Authenticates(req, roles) ==
    \E u \in DOMAIN InitialUsers :
        /\ req.username = Given(u)
        /\ req.password = Given(InitialUsers[u].password)
        /\ InitialUsers[u].role \in roles

AllRoles == {"Admin", "Manager", "Staff"}

\* every entry of d other than the one under key k is where and what it was
OthersKept(old, new, k) ==
    /\ Len(new) = Len(old)
    /\ \A i \in DOMAIN old : old[i].key # k => new[i] = old[i]

-----------------------------------------------------------------------------
\* C1: the product id counter never decreases, and a create answered 201
\* carries (in the response and in the store) an id strictly greater than
\* every product id given out before, whatever was deleted in between.
C1_IdsStrictlyIncrease ==
    [][ /\ product_id_counter' >= product_id_counter
        /\ (Handled("POST /products") /\ response'.status = 201) =>
              LET id == response'.body.id IN
              /\ id.t = "int"
              /\ \A i \in DOMAIN assigned : id.n > assigned[i]
              /\ assigned' = Append(assigned, id.n)
              /\ id.n \in keys(products')
              /\ lookup(products', id.n) = response'.body
      ]_vars

\* a create is answered with id 6 after product 5 (the latest id) and
\* product 2 (a smaller id) were deleted
C1_Witness ==
    /\ request.route = "POST /products"
    /\ response.status = 201
    /\ response.body.id = IntV(6)
    /\ 5 \notin keys(products)
    /\ 2 \notin keys(products)

\* C2: in every reachable state no two products carry the same id and each
\* product's id is the key it is stored under; the same for suppliers.
C2_IdsUnique ==
    /\ \A i, j \in DOMAIN products :
          products[i].val.id = products[j].val.id => i = j
    /\ \A i \in DOMAIN products : products[i].val.id = IntV(products[i].key)
    /\ \A i, j \in DOMAIN suppliers :
          suppliers[i].val.id = suppliers[j].val.id => i = j
    /\ \A i \in DOMAIN suppliers : suppliers[i].val.id = IntV(suppliers[i].key)

\* C3: on every mutating route a request whose credentials do not
\* authenticate to an allowed role is answered 403, whatever its payload and
\* whether or not the product id exists, and nothing is changed.
C3_RoleCheckedFirst ==
    [][ /\ (Handled("POST /products")
              /\ ~Authenticates(request', {"Admin", "Manager"}))
           => (response'.status = 403 /\ UNCHANGED stores)
        /\ (Handled("PUT /products/<id>")
              /\ ~Authenticates(request', {"Admin", "Manager"}))
           => (response'.status = 403 /\ UNCHANGED stores)
        /\ (Handled("DELETE /products/<id>")
              /\ ~Authenticates(request', {"Admin"}))
           => (response'.status = 403 /\ UNCHANGED stores)
        /\ (Handled("PUT /products/<id>/stock")
              /\ ~Authenticates(request', AllRoles))
           => (response'.status = 403 /\ UNCHANGED stores)
        /\ (Handled("POST /suppliers")
              /\ ~Authenticates(request', {"Admin"}))
           => (response'.status = 403 /\ UNCHANGED stores)
      ]_vars

\* a Manager deleting an id that does not exist is answered 403, not 404
C3_Witness ==
    /\ request.route = "DELETE /products/<id>"
    /\ request.username = Given("manager")
    /\ request.password = Given("managerpassword")
    /\ request.product_id \notin keys(products)
    /\ response.status = 403

\* C4: an Admin delete of an id that is not in the collection is answered 404
\* and leaves the collection as it was; of an id that is, it is answered 200
\* and removes that entry and nothing else.
C4_Delete ==
    [][ (Handled("DELETE /products/<id>") /\ Authenticates(request', {"Admin"})) =>
            LET id == request'.product_id IN
            IF id \notin keys(products)
            THEN response'.status = 404 /\ products' = products
            ELSE /\ response'.status = 200
                 /\ keys(products') = keys(products) \ {id}
                 /\ Len(products') = Len(products) - 1
                 /\ \A k \in keys(products') :
                        lookup(products', k) = lookup(products, k)
                 /\ values(products') =
                        values(SelectSeq(products, LAMBDA e : e.key # id))
      ]_vars

\* product 2 was deleted while the created product 5 and the others stay
C4_Witness ==
    /\ request.route = "DELETE /products/<id>"
    /\ request.product_id = 2
    /\ response.status = 200
    /\ keys(products) = {1, 3, 4, 5}

\* C5: for any role, any product present whose stock_level is an integer s
\* and any nonzero integer change c, the adjustment is answered 200 and the
\* stock_level becomes s + c (no floor at zero); the product's other fields,
\* the other products, the suppliers and the counters are unchanged.
C5_StockAdditive ==
    [][ ( /\ Handled("PUT /products/<id>/stock")
          /\ Authenticates(request', AllRoles)
          /\ request'.product_id \in keys(products)
          /\ lookup(products, request'.product_id).stock_level.t = "int"
          /\ request'.change.some
          /\ request'.change.v.t = "int"
          /\ request'.change.v.n # 0 ) =>
            LET id == request'.product_id
                old == lookup(products, id)
                new == lookup(products', id)
            IN  /\ response'.status = 200
                /\ new.stock_level = IntV(old.stock_level.n + request'.change.v.n)
                /\ DOMAIN new = DOMAIN old
                /\ \A k \in DOMAIN old \ {"stock_level"} : new[k] = old[k]
                /\ response'.body = new
                /\ OthersKept(products, products', id)
                /\ keys(products') = keys(products)
                /\ UNCHANGED <<suppliers, product_id_counter, supplier_id_counter>>
      ]_vars

\* change = -1000 on product 2, whose stock_level was 50, leaves -950
C5_Witness ==
    /\ request.route = "PUT /products/<id>/stock"
    /\ request.product_id = 2
    /\ request.change = Given(IntV(-1000))
    /\ response.status = 200
    /\ lookup(products, 2).stock_level = IntV(-950)

\* C6: an Admin or Manager update of a product present is a merge: every key
\* of the supplied object is set on the record, every other key of the record
\* keeps its value, and no other product is changed.
C6_UpdateMerges ==
    [][ ( /\ Handled("PUT /products/<id>")
          /\ Authenticates(request', {"Admin", "Manager"})
          /\ request'.product_id \in keys(products) ) =>
            LET id == request'.product_id
                old == lookup(products, id)
                new == lookup(products', id)
                data == IF request'.product.some THEN request'.product.v ELSE NoDict
            IN  /\ response'.status = 200
                /\ keys(products') = keys(products)
                /\ DOMAIN new = DOMAIN old \cup DOMAIN data
                /\ \A k \in DOMAIN data : new[k] = data[k]
                /\ \A k \in DOMAIN old \ DOMAIN data : new[k] = old[k]
                /\ response'.body = new
                /\ OthersKept(products, products', id)
      ]_vars

\* only stock_level was sent for product 2: name, category and reorder_point
\* are the ones it started with
C6_Witness ==
    /\ request.route = "PUT /products/<id>"
    /\ request.product_id = 2
    /\ DOMAIN request.product.v = {"stock_level"}
    /\ response.status = 200
    /\ lookup(products, 2) =
          [Product(2, RouterX500, Networking, 50, 20) EXCEPT
              !.stock_level = IntV(20)]

-----------------------------------------------------------------------------
\* what the query of a request asks of a product: every filter supplied
Matches(p, req) ==
    /\ req.name # <<>> =>
          p.name.t = "str" /\ contains(lower(p.name.s), lower(req.name))
    /\ req.category # <<>> =>
          p.category.t = "str" /\ contains(lower(p.category.s), lower(req.category))
    /\ lower(req.stock_status) = <<"l", "o", "w">> =>
          /\ comparable(p.stock_level, p.reorder_point)
          /\ less(p.stock_level, p.reorder_point)
    /\ lower(req.stock_status) =
            <<"o", "u", "t", " ", "o", "f", " ", "s", "t", "o", "c", "k">> =>
          isinstance_int(p.stock_level) /\ p.stock_level.n <= 0

Answer(req) ==
    LET RECURSIVE pick(_)
        pick(list) ==
            IF list = <<>> THEN <<>>
            ELSE IF Matches(Head(list), req)
                 THEN <<Head(list)>> \o pick(Tail(list))
                 ELSE pick(Tail(list))
    IN  pick(values(products))

\* C7: for any product collection and any name, category and stock_status,
\* the query is answered 200 with exactly the products that satisfy every
\* supplied filter, in store order ("low": stock_level < reorder_point, "out
\* of stock": stock_level <= 0, no filter: everything), and changes nothing.
C7_QueryFilters ==
    [][ Handled("GET /products") =>
            /\ response'.status = 200
            /\ response'.body = Answer(request')
            /\ UNCHANGED <<users, stores>>
      ]_vars

\* every product holds a str name and category and an int stock_level and
\* reorder_point
WellTyped ==
    \A i \in DOMAIN products :
        LET p == products[i].val IN
        /\ p.name.t = "str" /\ p.category.t = "str"
        /\ p.stock_level.t = "int" /\ p.reorder_point.t = "int"

\* The part of C7 the handler does satisfy: on a collection whose fields
\* have the types of the data model, the answer is 200 with exactly the
\* matching products in store order, and nothing is changed.
QueryFiltersWellTyped ==
    [][ (Handled("GET /products") /\ WellTyped) =>
            /\ response'.status = 200
            /\ response'.body = Answer(request')
            /\ UNCHANGED <<users, stores>>
      ]_vars

\* C8: login answers 200 with the role of the entry that the username and
\* password match exactly and 401 for any other pair; it changes neither the
\* credential table (no step does) nor products, suppliers and counters, and
\* nothing of it is left once the request is over.
C8_Login ==
    [][ /\ users' = users
        /\ Handled("POST /login") =>
              /\ \A u \in DOMAIN InitialUsers :
                    ( /\ request'.username = Given(u)
                      /\ request'.password = Given(InitialUsers[u].password) )
                    => /\ response'.status = 200
                       /\ response'.body.role = InitialUsers[u].role
                       /\ response'.body.username = u
              /\ ~Authenticates(request', AllRoles) => response'.status = 401
              /\ UNCHANGED stores
        /\ (request.route = "POST /login" /\ request'.route = "") =>
              /\ request' = NoRequest /\ response' = NoResponse
              /\ UNCHANGED <<users, stores>>
      ]_vars

\* the username in the wrong case, with the right password, is answered 401
C8_Witness ==
    /\ request.route = "POST /login"
    /\ request.username = Given("Admin")
    /\ request.password = Given("adminpassword")
    /\ response.status = 401

\* C9: a request answered 400, 401, 403 or 404 leaves products, suppliers
\* and both counters as they were; in particular a stock adjustment (by an
\* allowed role, on a product present) whose change is missing, zero or not
\* an integer is answered 400 and changes nothing.
C9_ErrorsChangeNothing ==
    [][ (request.route = "" /\ request'.route # "") =>
            /\ response'.status \in {400, 401, 403, 404} => UNCHANGED stores
            /\ ( /\ request'.route = "PUT /products/<id>/stock"
                 /\ Authenticates(request', AllRoles)
                 /\ request'.product_id \in keys(products)
                 /\ \/ ~request'.change.some
                    \/ request'.change.v.t # "int"
                    \/ request'.change.v.n = 0 )
               => (response'.status = 400 /\ UNCHANGED stores)
      ]_vars

\* The part of C9 the handlers do satisfy: no request answered with an
\* error status changes anything.
ErrorStatusChangesNothing ==
    [][ ( /\ request.route = "" /\ request'.route # ""
          /\ response'.status \in {400, 401, 403, 404, 500} )
        => UNCHANGED stores
      ]_vars

Distinct(seq) == \A i, j \in DOMAIN seq : seq[i] = seq[j] => i = j

\* C10: when creates run one at a time, no two are answered with the same
\* id and the product each was answered with is the one stored under that
\* id; two creates that share an id, one overwriting the other, arise only
\* when the statements of concurrent creates interleave.
C10_SerialCreatesDistinct ==
    ~threaded =>
        /\ Distinct(assigned)
        /\ \A w \in Workers :
              th[w].status = 201 =>
                 /\ th[w].new_product.id.n \in keys(products)
                 /\ lookup(products, th[w].new_product.id.n) = th[w].new_product

\* interleaved: both creates read the counter at 5, both were answered 201
\* with id 5, and the collection holds only the product written last
C10_Witness ==
    /\ threaded
    /\ \A w \in Workers : th[w].pc = "idle" /\ th[w].status = 201
    /\ th[1].new_product.id = IntV(5)
    /\ th[2].new_product.id = IntV(5)
    /\ th[1].new_product # th[2].new_product
    /\ Len(products) = 5
    /\ lookup(products, 5) \in {th[1].new_product, th[2].new_product}

====
